---- MODULE Spec2Model ----
(***************************************************************************)
(* Model of the nuoa-swe command-line tools:                               *)
(*   - increase_version_of_table.py  (bulk conditional table updater)      *)
(*   - get_logs.py                   (log fetcher)                         *)
(*   - get_lambdas.py                (filtered function lister)            *)
(*   - detect_aws_resources.py       (resource detector)                   *)
(* Each tool has its own initial predicate, next-state relation and        *)
(* specification; the variables of the other tools stay at their idle      *)
(* values.                                                                 *)
(***************************************************************************)
EXTENDS Integers, Sequences, FiniteSets, TLC

(***************************************************************************)
(* Bounds of the model.                                                    *)
(***************************************************************************)
MaxPages == 2
MaxRows == 3
MaxVersion == 1
MaxRaceRows == 2
MaxTimeLen == 2
MaxLogPages == 3
MaxFuncs == 2
MaxLamPages == 2
MaxRecords == 1

VARIABLES
    \* ---- table updater -------------------------------------------------
    runs,        \* the updater processes that exist (1 of them, or 2 racing)
    layout,      \* the table's scan pages: layout[p] = number of rows of page p
    initStore,   \* stored versionId of every row before any run
    store,       \* stored versionId of every row (the remote table)
    argv,        \* argv[r]: the flags on run r's command line
    pc,          \* pc[r]: where run r is
    dry_run,     \* dry_run[r]: the dry_run argument of scan_and_update_table
    response,    \* response[r]: index of the last page scanned, 0 = None
    items,       \* items[r]: response['Items'] of the last page, as read
    idx,         \* idx[r]: position of the for loop in items[r]
    count,       \* count[r]
    scans,       \* scans[r]: number of scan requests issued
    readVer,     \* readVer[r][row]: the versionId run r read for row, -1 = none
    attempts,    \* attempts[r][row]: number of put_item requests for row
    committed,   \* committed[r]: the rows whose put_item of run r committed
    rejected,    \* rejected[r]: the rows whose put_item failed its condition
    \* ---- log fetcher ---------------------------------------------------
    time_range,  \* the --time argument, a sequence of characters
    now,         \* the current time, epoch milliseconds
    utcoffset,   \* the host's local UTC offset, milliseconds
    lpc,         \* where get_logs is
    start_ms,    \* kwargs['startTime']
    end_ms,      \* kwargs['endTime']
    events,      \* the accumulated events
    queries,     \* number of filter_log_events requests issued
    logResult,   \* what get_logs returned
    logError,    \* the except clause get_logs took, "" = none
    \* ---- function lister -----------------------------------------------
    lamPages,    \* the pages list_functions returns, each a sequence of names
    domain,      \* the domain argument: [given, text]
    stage,       \* the stage argument: [given, text]
    lamPc,       \* where get_lambdas is
    lamPage,     \* number of pages the paginator has yielded
    functions,   \* the names retained so far
    lamResult,   \* what get_lambdas returned
    lamError,    \* the except clause get_lambdas took, "" = none
    \* ---- resource detector ---------------------------------------------
    service,     \* the --service argument
    dpc,         \* where main is
    step,        \* number of enumerators that have been called
    remote,      \* remote[s]: number of resources the endpoint of s holds
    outcome,     \* outcome[s]: how the listing call of s ended, "none" = not made
    detail,      \* detail[i]: how describe_table of table i ended
    resources,   \* resources[s]: what the enumerator of s returned
    report,      \* the mapping handed to print_resources, <<>> = nothing printed
    exitCode     \* the value main returned, -1 = still running

updVars == <<runs, layout, initStore, store, argv, pc, dry_run, response,
             items, idx, count, scans, readVer, attempts, committed, rejected>>

logVars == <<time_range, now, utcoffset, lpc, start_ms, end_ms, events,
             queries, logResult, logError>>

lamVars == <<lamPages, domain, stage, lamPc, lamPage, functions, lamResult,
             lamError>>

detVars == <<service, dpc, step, remote, outcome, detail, resources, report,
             exitCode>>

vars == <<updVars, logVars, lamVars, detVars>>

Runs == 1..2

(***************************************************************************)
(* Helpers on sequences of naturals.                                       *)
(***************************************************************************)
RECURSIVE SumSeq(_)
SumSeq(s) == IF s = <<>> THEN 0 ELSE Head(s) + SumSeq(Tail(s))

RECURSIVE SeqsUpTo(_, _)
\* all sequences over S of length at most n
SeqsUpTo(S, n) ==
    IF n = 0 THEN {<<>>}
    ELSE LET shorter == SeqsUpTo(S, n - 1)
         IN  shorter \cup {Append(s, x) : s \in shorter, x \in S}

Layouts ==
    {l \in SeqsUpTo(0..MaxRows, MaxPages) : Len(l) >= 1 /\ SumSeq(l) <= MaxRows}

NRows == SumSeq(layout)
Rows == 1..NRows

\* number of rows in the pages before page p
PageStart(p) == SumSeq(SubSeq(layout, 1, p - 1))

(***************************************************************************)
(* increase_version_of_table.py                                            *)
(***************************************************************************)

\* argparse: '--dry-run', default=False, action='store_true'
ParseDryRun(flags) == "--dry-run" \in flags

\* table.scan(...): the rows of page p with their stored versions
ScanPage(p) ==
    [i \in 1..layout[p] |->
        [row |-> PageStart(p) + i, versionId |-> store[PageStart(p) + i]]]

\* 'LastEvaluatedKey' in response: every page but the last carries a cursor
HasLastEvaluatedKey(p) == p < Len(layout)

\* while response is None or 'LastEvaluatedKey' in response
LoopCondition(r) == response[r] = 0 \/ HasLastEvaluatedKey(response[r])

\* a guard that also admits a stored version equal to the value written
ConditionAtMost(stored, value) == stored <= value

\* ConditionExpression='versionId < :value'
ConditionExpression(stored, value) == stored < value

\* a loop body without the dry-run branch
WritesAlways(dry) == TRUE

\* if dry_run: count += 1; continue   else: put_item
WritesRow(dry) == ~dry

\* a scan loop without the dry-run break
BreakNever(dry) == FALSE

\* if dry_run: break
BreakAfterPage(dry) == dry

\* a put_item whose exception is not caught
AbortOnFailedPut(p) == "aborted"

\* except Exception as e: print(...) -- the for loop goes on
AfterFailedPut(p) == p

Main(r) ==
    /\ r \in runs
    /\ pc[r] = "cli"
    /\ dry_run' = [dry_run EXCEPT ![r] = ParseDryRun(argv[r])]
    /\ pc' = [pc EXCEPT ![r] = "loop"]
    /\ UNCHANGED <<runs, layout, initStore, store, argv, response, items, idx,
                   count, scans, readVer, attempts, committed, rejected>>

Scan(r) ==
    /\ r \in runs
    /\ pc[r] = "loop"
    /\ LoopCondition(r)
    /\ LET p == response[r] + 1
           page == ScanPage(p)
       IN  /\ response' = [response EXCEPT ![r] = p]
           /\ items' = [items EXCEPT ![r] = page]
           /\ readVer' = [readVer EXCEPT ![r] =
                 [row \in DOMAIN readVer[r] |->
                    IF \E i \in 1..Len(page) : page[i].row = row
                    THEN store[row] ELSE readVer[r][row]]]
    /\ idx' = [idx EXCEPT ![r] = 1]
    /\ scans' = [scans EXCEPT ![r] = @ + 1]
    /\ pc' = [pc EXCEPT ![r] = "items"]
    /\ UNCHANGED <<runs, layout, initStore, store, argv, dry_run, count,
                   attempts, committed, rejected>>

ProcessItem(r) ==
    /\ r \in runs
    /\ pc[r] = "items"
    /\ idx[r] <= Len(items[r])
    /\ LET item == items[r][idx[r]]
           value == item.versionId + 1
       IN  IF ~WritesRow(dry_run[r])
           THEN /\ count' = [count EXCEPT ![r] = @ + 1]
                /\ pc' = pc
                /\ UNCHANGED <<store, attempts, committed, rejected>>
           ELSE \E fault \in BOOLEAN :
                /\ attempts' = [attempts EXCEPT ![r][item.row] = @ + 1]
                /\ IF ~fault /\ ConditionExpression(store[item.row], value)
                   THEN /\ store' = [store EXCEPT ![item.row] = value]
                        /\ count' = [count EXCEPT ![r] = @ + 1]
                        /\ committed' = [committed EXCEPT ![r] = @ \cup {item.row}]
                        /\ pc' = pc
                        /\ UNCHANGED rejected
                   ELSE /\ pc' = [pc EXCEPT ![r] = AfterFailedPut(pc[r])]
                        /\ rejected' = [rejected EXCEPT ![r] =
                              IF fault THEN @ ELSE @ \cup {item.row}]
                        /\ UNCHANGED <<store, count, committed>>
    /\ idx' = [idx EXCEPT ![r] = @ + 1]
    /\ UNCHANGED <<runs, layout, initStore, argv, dry_run, response, items,
                   scans, readVer>>

EndPage(r) ==
    /\ r \in runs
    /\ pc[r] = "items"
    /\ idx[r] > Len(items[r])
    /\ pc' = [pc EXCEPT ![r] = IF BreakAfterPage(dry_run[r]) THEN "done" ELSE "loop"]
    /\ UNCHANGED <<runs, layout, initStore, store, argv, dry_run, response,
                   items, idx, count, scans, readVer, attempts, committed, rejected>>

Summary(r) ==
    /\ r \in runs
    /\ pc[r] = "loop"
    /\ ~LoopCondition(r)
    /\ pc' = [pc EXCEPT ![r] = "done"]
    /\ UNCHANGED <<runs, layout, initStore, store, argv, dry_run, response,
                   items, idx, count, scans, readVer, attempts, committed, rejected>>

InitTable(active, flagSets, maxRows) ==
    /\ runs = active
    /\ layout \in {l \in Layouts : SumSeq(l) <= maxRows}
    /\ initStore \in [1..SumSeq(layout) -> 0..MaxVersion]
    /\ store = initStore
    /\ argv \in [Runs -> flagSets]
    /\ pc = [r \in Runs |-> IF r \in active THEN "cli" ELSE "off"]
    /\ dry_run = [r \in Runs |-> TRUE]
    /\ response = [r \in Runs |-> 0]
    /\ items = [r \in Runs |-> <<>>]
    /\ idx = [r \in Runs |-> 1]
    /\ count = [r \in Runs |-> 0]
    /\ scans = [r \in Runs |-> 0]
    /\ readVer = [r \in Runs |-> [row \in 1..SumSeq(layout) |-> -1]]
    /\ attempts = [r \in Runs |-> [row \in 1..SumSeq(layout) |-> 0]]
    /\ committed = [r \in Runs |-> {}]
    /\ rejected = [r \in Runs |-> {}]

\* one invocation of the tool, with or without --dry-run
TableIdle ==
    /\ runs = {}
    /\ layout = <<0>>
    /\ initStore = <<>>
    /\ store = <<>>
    /\ argv = [r \in Runs |-> {}]
    /\ pc = [r \in Runs |-> "off"]
    /\ dry_run = [r \in Runs |-> TRUE]
    /\ response = [r \in Runs |-> 0]
    /\ items = [r \in Runs |-> <<>>]
    /\ idx = [r \in Runs |-> 1]
    /\ count = [r \in Runs |-> 0]
    /\ scans = [r \in Runs |-> 0]
    /\ readVer = [r \in Runs |-> <<>>]
    /\ attempts = [r \in Runs |-> <<>>]
    /\ committed = [r \in Runs |-> {}]
    /\ rejected = [r \in Runs |-> {}]

(***************************************************************************)
(* get_logs.py                                                             *)
(***************************************************************************)

\* timedelta(minutes=1), timedelta(hours=1), timedelta(days=1) in milliseconds
MinuteMs == 60000
HourMs == 3600000
DayMs == 86400000
\* kwargs['limit']
Limit == 100
\* len(events) >= 100
Cap == 100

Chars == {"1", "2", "m", "M", "h", "d", "s"}
TimeStrings == SeqsUpTo(Chars, MaxTimeLen)
Clock == {1000000000}
UtcOffsets == {-18000000, 0, 25200000}

\* str.lower() on one character
Lower(c) ==
    CASE c = "M" -> "m"
      [] c = "R" -> "r"
      [] c = "H" -> "h"
      [] c = "D" -> "d"
      [] OTHER -> c

IsDigit(c) == c \in {"0", "1", "2", "3", "4", "5", "6", "7", "8", "9"}

DigitValue(c) ==
    CASE c = "0" -> 0 [] c = "1" -> 1 [] c = "2" -> 2 [] c = "3" -> 3
      [] c = "4" -> 4 [] c = "5" -> 5 [] c = "6" -> 6 [] c = "7" -> 7
      [] c = "8" -> 8 [] OTHER -> 9

\* the decimal value of a string of digits
RECURSIVE DigitsValue(_)
DigitsValue(s) ==
    IF s = <<>> THEN 0
    ELSE 10 * DigitsValue(SubSeq(s, 1, Len(s) - 1)) + DigitValue(s[Len(s)])

\* a value returned, or the exception raised instead
Returns(v) == [err |-> "", val |-> v]
Raises(e) == [err |-> e, val |-> 0]

\* int(s)
ParseInt(s) ==
    IF s # <<>> /\ \A i \in 1..Len(s) : IsDigit(s[i])
    THEN Returns(DigitsValue(s))
    ELSE Raises("ValueError")

\* the unit test of parse_time_range: the milliseconds of one unit, 0 = else branch
UnitMs(unit) ==
    IF unit = "m" THEN MinuteMs
    ELSE IF unit = "h" THEN HourMs
    ELSE IF unit = "d" THEN DayMs
    ELSE 0

\* unit = time_str[-1].lower()
UnitOf(time_str) == Lower(time_str[Len(time_str)])

\* parse_time_range: the timedelta in milliseconds, or the exception raised
parse_time_range(time_str) ==
    IF time_str = <<>> THEN Raises("IndexError")
    ELSE LET unit == UnitOf(time_str)
             value == ParseInt(SubSeq(time_str, 1, Len(time_str) - 1))
         IN  IF value.err # "" THEN value
             ELSE IF UnitMs(unit) # 0 THEN Returns(value.val * UnitMs(unit))
             ELSE Raises("ValueError")

\* datetime.utcnow(): the naive datetime holding the UTC wall clock
utcnow == now

\* int(naive.timestamp() * 1000): a naive datetime is read as local time, so
\* the host's UTC offset is taken off the wall clock; times are whole
\* milliseconds
timestamp_ms(naive) == naive - utcoffset

\* the exit test of the while True loop
StopPaging(next_token, n) == ~next_token \/ n >= Cap

\* return events
ReturnedEvents(evs) == evs

GetLogsStart ==
    /\ lpc = "start"
    /\ LET delta == parse_time_range(time_range)
       IN  IF delta.err # ""
           THEN /\ logError' = delta.err
                /\ logResult' = <<>>
                /\ lpc' = "done"
                /\ UNCHANGED <<start_ms, end_ms>>
           ELSE /\ end_ms' = timestamp_ms(utcnow)
                /\ start_ms' = timestamp_ms(utcnow - delta.val)
                /\ lpc' = "query"
                /\ UNCHANGED <<logError, logResult>>
    /\ UNCHANGED <<time_range, now, utcoffset, events, queries>>

\* one filter_log_events request answered with a page
FilterLogEvents ==
    /\ lpc = "query"
    /\ queries' = queries + 1
    /\ \E n \in 0..Limit, next_token \in BOOLEAN :
        /\ queries' < MaxLogPages \/ ~next_token
        /\ LET first == Len(events)
               page == [i \in 1..n |-> first + i]
           IN  events' = events \o page
        /\ IF StopPaging(next_token, Len(events'))
           THEN /\ logResult' = ReturnedEvents(events')
                /\ lpc' = "done"
           ELSE /\ lpc' = "query"
                /\ UNCHANGED logResult
    /\ UNCHANGED <<time_range, now, utcoffset, start_ms, end_ms, logError>>

\* one filter_log_events request answered with a ClientError
FilterLogEventsFails ==
    /\ lpc = "query"
    /\ queries' = queries + 1
    /\ logError' = "ClientError"
    /\ logResult' = <<>>
    /\ lpc' = "done"
    /\ UNCHANGED <<time_range, now, utcoffset, start_ms, end_ms, events>>

LogsIdle ==
    /\ time_range = <<>>
    /\ now = 0
    /\ utcoffset = 0
    /\ lpc = "off"
    /\ start_ms = 0
    /\ end_ms = 0
    /\ events = <<>>
    /\ queries = 0
    /\ logResult = <<>>
    /\ logError = ""

(***************************************************************************)
(* get_lambdas.py                                                          *)
(***************************************************************************)

NameChars == {"r", "R", "p"}
FunctionNames == SeqsUpTo(NameChars, 2) \ {<<>>}
FilterTexts == SeqsUpTo(NameChars, 1)
\* an argument left out (None) or given with its text
Filters == {[given |-> FALSE, text |-> <<>>]}
               \cup {[given |-> TRUE, text |-> t] : t \in FilterTexts}

\* str.lower()
LowerStr(str) == [i \in 1..Len(str) |-> Lower(str[i])]

\* sub in str
In(sub, str) ==
    \E i \in 0..(Len(str) - Len(sub)) : SubSeq(str, i + 1, i + Len(sub)) = sub

\* the truth value of an optional string: None and '' are false
Truthy(arg) == arg.given /\ arg.text # <<>>

\* a filter test that compares without lower-casing
SkipsCaseSensitive(arg, func_name) ==
    Truthy(arg) /\ ~In(arg.text, func_name)

\* if <arg> and <arg>.lower() not in func_name.lower(): continue
Skips(arg, func_name) ==
    Truthy(arg) /\ ~In(LowerStr(arg.text), LowerStr(func_name))

\* the two filter tests of the loop body: TRUE when the name is appended
Appended(func_name) == ~Skips(domain, func_name) /\ ~Skips(stage, func_name)

\* the names of the pages p..Len(pgs), in order
RECURSIVE Flatten(_)
Flatten(pgs) == IF pgs = <<>> THEN <<>> ELSE Head(pgs) \o Flatten(Tail(pgs))

\* the way a list of names is cut into pages
RECURSIVE Cut(_, _)
Cut(names, sizes) ==
    IF sizes = <<>> THEN <<>>
    ELSE <<SubSeq(names, 1, Head(sizes))>>
             \o Cut(SubSeq(names, Head(sizes) + 1, Len(names)), Tail(sizes))

Listings ==
    {Cut(ns[1], ns[2]) : ns \in {<<names, sizes>> \in
        SeqsUpTo(FunctionNames, MaxFuncs)
          \X {l \in SeqsUpTo(0..MaxFuncs, MaxLamPages) : Len(l) >= 1} :
        SumSeq(sizes) = Len(names)}}
\* one page of paginator.paginate() and the for loop over its functions
ListFunctionsPage ==
    /\ lamPc = "paginate"
    /\ lamPage < Len(lamPages)
    /\ lamPage' = lamPage + 1
    /\ functions' = functions \o SelectSeq(lamPages[lamPage'], Appended)
    /\ UNCHANGED <<lamPages, domain, stage, lamPc, lamResult, lamError>>

\* a list_functions request answered with a ClientError
ListFunctionsFails ==
    /\ lamPc = "paginate"
    /\ lamPage < Len(lamPages)
    /\ lamError' = "ClientError"
    /\ lamResult' = <<>>
    /\ lamPc' = "done"
    /\ UNCHANGED <<lamPages, domain, stage, lamPage, functions>>

\* the paginator is exhausted: print and return functions
ReturnFunctions ==
    /\ lamPc = "paginate"
    /\ lamPage = Len(lamPages)
    /\ lamResult' = functions
    /\ lamPc' = "done"
    /\ UNCHANGED <<lamPages, domain, stage, lamPage, functions, lamError>>

LambdasIdle ==
    /\ lamPages = <<>>
    /\ domain = [given |-> FALSE, text |-> <<>>]
    /\ stage = [given |-> FALSE, text |-> <<>>]
    /\ lamPc = "off"
    /\ lamPage = 0
    /\ functions = <<>>
    /\ lamResult = <<>>
    /\ lamError = ""

(***************************************************************************)
(* detect_aws_resources.py                                                 *)
(***************************************************************************)

\* the order in which the enumerators are written in detect_all_resources and
\* in the service_map literal of main
Order == <<"lambda", "s3", "dynamodb", "cloudformation", "apigateway">>
Services == {Order[i] : i \in 1..Len(Order)}

\* the key under which the resources of a service are reported
Key(s) ==
    CASE s = "lambda" -> "lambda_functions"
      [] s = "s3" -> "s3_buckets"
      [] s = "dynamodb" -> "dynamodb_tables"
      [] s = "cloudformation" -> "cloudformation_stacks"
      [] OTHER -> "api_gateways"

\* the exceptions a remote call can end with
RemoteErrors == {"ClientError", "NoCredentialsError", "EndpointConnectionError"}

\* an enumerator without its except clause
CaughtNever(e) == FALSE

\* the except clause of every enumerator: except ClientError
Caught(e) == e = "ClientError"

\* the enumerators main runs before it prints: detect_all_resources calls the
\* five of them, and the service_map literal calls the five of them as well
Plan(svc) == Order

\* the records an enumerator builds from a successful listing
Records(s, n, det) ==
    [i \in 1..n |->
        [name |-> <<s, i>>,
         status |-> IF s = "dynamodb" THEN det[i] ELSE "n/a"]]

\* what main prints: every kind, or the kind of the requested service
Selected(svc, res) ==
    IF svc = "all"
    THEN [k \in {Key(s) : s \in Services} |->
             res[CHOOSE s \in Services : Key(s) = k]]
    ELSE [k \in {Key(svc)} |-> res[svc]]

\* AWSResourceDetector(profile, region)
Construct ==
    /\ dpc = "init"
    /\ \E found \in BOOLEAN :
         IF found
         THEN /\ dpc' = "detect"
              /\ UNCHANGED exitCode
         ELSE /\ dpc' = "done"
              /\ exitCode' = 1
    /\ UNCHANGED <<service, step, remote, outcome, detail, resources, report>>

\* the enumerator of service s: its listing call and what it returns or raises
Enumerate(s) ==
    /\ dpc = "detect"
    /\ step < Len(Plan(service))
    /\ Plan(service)[step + 1] = s
    /\ step' = step + 1
    /\ \/ \E det \in [1..remote[s] -> {"ACTIVE", "Unknown"}] :
            /\ outcome' = [outcome EXCEPT ![s] = "ok"]
            /\ detail' = IF s = "dynamodb" THEN det ELSE detail
            /\ resources' = [resources EXCEPT ![s] = Records(s, remote[s], det)]
            /\ UNCHANGED <<dpc, exitCode>>
       \/ \E e \in RemoteErrors :
            /\ outcome' = [outcome EXCEPT ![s] = e]
            /\ IF Caught(e)
               THEN /\ resources' = [resources EXCEPT ![s] = <<>>]
                    /\ UNCHANGED <<dpc, exitCode>>
               ELSE /\ dpc' = "done"
                    /\ exitCode' = 1
                    /\ UNCHANGED resources
            /\ UNCHANGED detail
    /\ UNCHANGED <<service, remote, report>>

detect_lambda_functions == Enumerate("lambda")
detect_s3_buckets == Enumerate("s3")
detect_dynamodb_tables == Enumerate("dynamodb")
detect_cloudformation_stacks == Enumerate("cloudformation")
detect_api_gateways == Enumerate("apigateway")

\* print_resources(...) and return 0
PrintResources ==
    /\ dpc = "detect"
    /\ step = Len(Plan(service))
    /\ report' = Selected(service, resources)
    /\ exitCode' = 0
    /\ dpc' = "done"
    /\ UNCHANGED <<service, step, remote, outcome, detail, resources>>

DetectorIdle ==
    /\ service = "all"
    /\ dpc = "off"
    /\ step = 0
    /\ remote = [s \in Services |-> 0]
    /\ outcome = [s \in Services |-> "none"]
    /\ detail = <<>>
    /\ resources = [s \in Services |-> <<>>]
    /\ report = <<>>
    /\ exitCode = -1

(***************************************************************************)
(* Specifications: one per tool.                                           *)
(***************************************************************************)
notUpd == <<logVars, lamVars, detVars>>
notLog == <<updVars, lamVars, detVars>>
notLam == <<updVars, logVars, detVars>>
notDet == <<updVars, logVars, lamVars>>

\* one invocation of the table updater, with or without --dry-run
Init ==
    /\ InitTable({1}, {{}, {"--dry-run"}}, MaxRows)
    /\ argv[2] = {}
    /\ LogsIdle /\ LambdasIdle /\ DetectorIdle

Next ==
    \E r \in Runs :
        \/ Main(r) /\ UNCHANGED notUpd
        \/ Scan(r) /\ UNCHANGED notUpd
        \/ ProcessItem(r) /\ UNCHANGED notUpd
        \/ EndPage(r) /\ UNCHANGED notUpd
        \/ Summary(r) /\ UNCHANGED notUpd

Spec == Init /\ [][Next]_vars

\* two invocations of the table updater without --dry-run on the same table
InitRace ==
    /\ InitTable({1, 2}, {{}}, MaxRaceRows)
    /\ LogsIdle /\ LambdasIdle /\ DetectorIdle

SpecRace == InitRace /\ [][Next]_vars

\* one invocation of the log fetcher
InitLogs ==
    /\ time_range \in TimeStrings
    /\ now \in Clock
    /\ utcoffset \in UtcOffsets
    /\ lpc = "start"
    /\ start_ms = 0
    /\ end_ms = 0
    /\ events = <<>>
    /\ queries = 0
    /\ logResult = <<>>
    /\ logError = ""
    /\ TableIdle /\ LambdasIdle /\ DetectorIdle

NextLogs ==
    \/ GetLogsStart /\ UNCHANGED notLog
    \/ FilterLogEvents /\ UNCHANGED notLog
    \/ FilterLogEventsFails /\ UNCHANGED notLog

SpecLogs == InitLogs /\ [][NextLogs]_vars

\* one invocation of the function lister
InitLambdas ==
    /\ lamPages \in Listings
    /\ domain \in Filters
    /\ stage \in Filters
    /\ lamPc = "paginate"
    /\ lamPage = 0
    /\ functions = <<>>
    /\ lamResult = <<>>
    /\ lamError = ""
    /\ TableIdle /\ LogsIdle /\ DetectorIdle

NextLambdas ==
    \/ ListFunctionsPage /\ UNCHANGED notLam
    \/ ListFunctionsFails /\ UNCHANGED notLam
    \/ ReturnFunctions /\ UNCHANGED notLam

SpecLambdas == InitLambdas /\ [][NextLambdas]_vars

\* one invocation of the resource detector
InitDetector ==
    /\ service \in Services \cup {"all"}
    /\ dpc = "init"
    /\ step = 0
    /\ remote \in [Services -> 0..MaxRecords]
    /\ outcome = [s \in Services |-> "none"]
    /\ detail = <<>>
    /\ resources = [s \in Services |-> <<>>]
    /\ report = <<>>
    /\ exitCode = -1
    /\ TableIdle /\ LogsIdle /\ LambdasIdle

NextDetector ==
    \/ Construct /\ UNCHANGED notDet
    \/ detect_lambda_functions /\ UNCHANGED notDet
    \/ detect_s3_buckets /\ UNCHANGED notDet
    \/ detect_dynamodb_tables /\ UNCHANGED notDet
    \/ detect_cloudformation_stacks /\ UNCHANGED notDet
    \/ detect_api_gateways /\ UNCHANGED notDet
    \/ PrintResources /\ UNCHANGED notDet

SpecDetector == InitDetector /\ [][NextDetector]_vars

(***************************************************************************)
(* The claims.                                                             *)
(***************************************************************************)
Run1Started == pc[1] \in {"loop", "items", "done", "aborted"}
DryRun1 == Run1Started /\ dry_run[1]
LiveRun1 == Run1Started /\ ~dry_run[1]
NoPutIssued == \A row \in Rows : attempts[1][row] = 0
RowsChanged == {row \in Rows : store[row] # initStore[row]}

\* C1: when get_logs returns normally, the event sequence it returns has at
\* most 100 events, and exactly 100 once 100 events or more were served.
C1_AtMostHundredReturned ==
    (lpc = "done" /\ logError = "") =>
        /\ Len(logResult) <= 100
        /\ (Len(events) >= 100 => Len(logResult) = 100)

\* C2 as stated: a finished dry run has issued exactly one scan request, its
\* count is the size of the first page, and the count differs from the number
\* of rows of the table whenever the scan has more than one page.
C2_AsStated ==
    (DryRun1 /\ pc[1] = "done") =>
        /\ scans[1] = 1
        /\ count[1] = layout[1]
        /\ (Len(layout) > 1 => count[1] # NRows)

\* C2 amended: a finished dry run has issued exactly one scan request and its
\* count is the size of the first page; the count is below the number of rows
\* of the table exactly when a later page holds a row.
C2_DryRunCountsFirstPage ==
    (DryRun1 /\ pc[1] = "done") =>
        /\ scans[1] = 1
        /\ count[1] = layout[1]
        /\ (count[1] < NRows <=> \E p \in 2..Len(layout) : layout[p] > 0)

C2_Witness ==
    /\ DryRun1 /\ pc[1] = "done"
    /\ Len(layout) = 2 /\ layout[1] > 0 /\ layout[2] > 0
    /\ count[1] = layout[1] /\ count[1] < NRows

\* C3: a live run is never stopped by a failed write: it never aborts, no row
\* gets a second write attempt, and when it has reached its summary every
\* page was scanned, every row got exactly one attempt and the count is the
\* number of rows whose write committed.
C3_FailedWriteNeverStops ==
    LiveRun1 =>
        /\ pc[1] # "aborted"
        /\ \A row \in Rows : attempts[1][row] <= 1
        /\ pc[1] = "done" =>
              /\ scans[1] = Len(layout)
              /\ \A row \in Rows : attempts[1][row] = 1
              /\ count[1] = Cardinality(RowsChanged)
              /\ committed[1] = RowsChanged
              /\ \A row \in RowsChanged : store[row] = initStore[row] + 1

\* rows A, B, C where only the write of B fails
C3_Witness ==
    /\ LiveRun1 /\ pc[1] = "done"
    /\ NRows = 3
    /\ RowsChanged = {1, 3}
    /\ attempts[1][2] = 1 /\ attempts[1][3] = 1
    /\ count[1] = 2

\* C5: a command line without --dry-run runs in dry-run mode and issues no
\* write.
C5_DryRunIsDefault ==
    (Run1Started /\ "--dry-run" \notin argv[1]) =>
        /\ dry_run[1]
        /\ NoPutIssued
        /\ store = initStore

\* C9 as stated (the guard enforces nothing): when the two runs have read the
\* same stored version of a row and both have attempted their write, the
\* guard has rejected neither write.
C9_AsStated ==
    \A row \in Rows :
        (/\ readVer[1][row] # -1
         /\ readVer[1][row] = readVer[2][row]
         /\ attempts[1][row] = 1
         /\ attempts[2][row] = 1)
        => row \notin rejected[1] \cup rejected[2]

\* C9 amended: when the two runs have read the same stored version of a row,
\* at most one of their writes for that row commits.
C9_AtMostOneCommits ==
    \A row \in Rows :
        (readVer[1][row] # -1 /\ readVer[1][row] = readVer[2][row])
        => ~(row \in committed[1] /\ row \in committed[2])

C9_Witness ==
    \E row \in Rows :
        /\ readVer[1][row] # -1
        /\ readVer[1][row] = readVer[2][row]
        /\ row \in committed[1]
        /\ row \in rejected[2]
        /\ store[row] = readVer[1][row] + 1

\* C10: a dry run issues no put request and leaves every stored row as it was.
C10_DryRunNeverWrites ==
    DryRun1 => NoPutIssued /\ store = initStore

C10_Witness ==
    /\ DryRun1 /\ pc[1] = "done"
    /\ count[1] >= 2
    /\ NoPutIssued /\ store = initStore

\* the text of a time range the claim calls well formed: digits and m, h or d
C6_Units == {"m", "h", "d"}
C6_UnitMs(u) == IF u = "m" THEN 60000 ELSE IF u = "h" THEN 3600000 ELSE 86400000
C6_Last == time_range[Len(time_range)]
C6_Prefix == SubSeq(time_range, 1, Len(time_range) - 1)
C6_WellFormed ==
    /\ C6_Prefix # <<>>
    /\ \A i \in 1..Len(C6_Prefix) : IsDigit(C6_Prefix[i])
    /\ C6_Last \in C6_Units

\* C6: for a time range <integer><m|h|d> the queried window ends at the
\* current time and starts value*unit earlier; for any other trailing
\* character a validation error is raised and no log query is issued.
C6_WindowAndValidation ==
    (lpc # "start" /\ time_range # <<>>) =>
        /\ C6_WellFormed =>
              /\ end_ms = now
              /\ start_ms = end_ms - DigitsValue(C6_Prefix) * C6_UnitMs(C6_Last)
        /\ C6_Last \notin C6_Units =>
              /\ logError = "ValueError"
              /\ queries = 0

\* sub occurs in str, compared as written
C7_Occurs(sub, str) ==
    \E i \in 1..(Len(str) + 1) : \E j \in (i - 1)..Len(str) :
        SubSeq(str, i, j) = sub

\* the lower-cased name contains the lower-cased text of every supplied filter
C7_Retained(func_name) ==
    /\ domain.given => C7_Occurs(LowerStr(domain.text), LowerStr(func_name))
    /\ stage.given => C7_Occurs(LowerStr(stage.text), LowerStr(func_name))

\* C7: get_lambdas returns, in listing order, exactly the functions of all
\* pages whose lower-cased name contains the lower-cased text of every
\* supplied filter.
C7_FiltersConjunctiveCaseInsensitive ==
    (lamPc = "done" /\ lamError = "") =>
        lamResult = SelectSeq(Flatten(lamPages), C7_Retained)

\* both filters supplied, two pages, a function of the second page retained
\* although it matches only after lower-casing, another function dropped
C7_Witness ==
    /\ lamPc = "done" /\ lamError = ""
    /\ domain.given /\ domain.text # <<>>
    /\ stage.given /\ stage.text # <<>> /\ stage.text # domain.text
    /\ Len(lamPages) = 2 /\ lamPages[1] # <<>> /\ lamPages[2] # <<>>
    /\ Len(lamResult) = 1
    /\ lamResult[1] = lamPages[2][1]
    /\ ~C7_Occurs(domain.text, lamResult[1])

DetectorRan == dpc = "done" /\ step >= 1
AllKeys == {Key(s) : s \in Services}
OwnRecords(s) ==
    IF outcome[s] = "ok" THEN Records(s, remote[s], detail) ELSE <<>>

\* C4 as stated: whatever failures the enumerators met, detect_all_resources
\* returns the aggregate with all five keys, a failed kind mapped to the empty
\* sequence and every other kind to its own records.
C4_AsStated ==
    (service = "all" /\ DetectorRan) =>
        /\ exitCode = 0
        /\ DOMAIN report = AllKeys
        /\ \A s \in Services : report[Key(s)] = OwnRecords(s)

\* C4 amended: when every failure the enumerators met was a ClientError, all
\* five enumerators ran and the aggregate has all five keys, a failed kind
\* mapped to the empty sequence and every other kind to its own records; a
\* failure of another kind aborts the run with exit code 1 and no report.
C4_ClientErrorIsContained ==
    (service = "all" /\ DetectorRan) =>
        IF \A s \in Services : outcome[s] \in {"none", "ok", "ClientError"}
        THEN /\ exitCode = 0
             /\ \A s \in Services : outcome[s] # "none"
             /\ DOMAIN report = AllKeys
             /\ \A s \in Services : report[Key(s)] = OwnRecords(s)
        ELSE /\ exitCode = 1
             /\ report = <<>>

C4_Witness ==
    /\ service = "all" /\ DetectorRan
    /\ outcome["s3"] = "ClientError"
    /\ \A s \in Services \ {"s3"} : outcome[s] = "ok" /\ remote[s] > 0
    /\ exitCode = 0
    /\ report["s3_buckets"] = <<>>
    /\ report["api_gateways"] # <<>>

\* C8: with --service set to one service no remote call goes to any other
\* service, and the run ends with that service's records as its report and
\* exit code 0 whenever that service's own call returned or raised ClientError.
C8_OnlyRequestedService ==
    service # "all" =>
        /\ \A s \in Services \ {service} : outcome[s] = "none"
        /\ (dpc = "done" /\ outcome[service] \in {"ok", "ClientError"}) =>
              /\ exitCode = 0
              /\ report = [k \in {Key(service)} |-> OwnRecords(service)]

====
